---- MODULE Spec2Model ----
(***************************************************************************)
(* Model of src/main.py: the webhook handler github_webhook and the        *)
(* pipeline build_and_push_docker_image (credentials, working copy sync,   *)
(* image build, tagging, push).                                            *)
(*                                                                         *)
(* Strings that the code takes apart are sequences of their pieces:        *)
(*   a ref / repository name / file path is the sequence of its            *)
(*   "/"-separated segments ("refs/heads/main" is <<"refs","heads","main">>)*)
(*   a commit id is the sequence of its characters.                        *)
(***************************************************************************)
EXTENDS Naturals, Sequences, FiniteSets

\* ------------------------------------------------------------------ bounds
\* Number of webhook deliveries (runs of the handler) in one behaviour.
MaxRuns == 2

\* sha[:7]
ShaPrefixLen == 7

Runs == 1..MaxRuns

\* ------------------------------------------------------------------ inputs
Sha1 == <<"a","b","c","d","e","f","1","2">>
\* same first seven characters as Sha1
Sha2 == <<"a","b","c","d","e","f","1","3">>
Sha3 == <<"0","1","2","3","4","5","6","7">>
\* shorter than the prefix length
ShaShort == <<"9","9">>
Shas == {Sha1, Sha2, Sha3}

RepoOrgApp == <<"org","app">>
\* another owner, same repository name
RepoOtherApp == <<"other","app">>
RepoOrgLib == <<"org","lib">>
Repos == {RepoOrgApp, RepoOtherApp, RepoOrgLib}

RefMain == <<"refs","heads","main">>
RefProduction == <<"refs","heads","production">>
RefFeature == <<"refs","heads","feature","x">>
RefTag == <<"refs","tags","v1">>
Refs == {RefMain, RefProduction, RefFeature, RefTag}

ChartsFile == <<"charts","values.yaml">>
SrcFile == <<"src","app.py">>
\* a path whose first segment merely begins with "charts"
ChartsOldFile == <<"chartsold","values.yaml">>

ModifiedLists == {<< >>, <<ChartsFile>>, <<ChartsFile, SrcFile>>, <<ChartsOldFile>>}

MkPayload(ref, repo, sha, modified, added, removed) ==
    [ref |-> ref,
     repository |-> [full_name |-> repo],
     head_commit |-> [id |-> sha, added |-> added, removed |-> removed,
                      modified |-> modified]]

\* The payloads delivered to the endpoint: every ref with every modified
\* list; every added / removed list with an empty modified list; and, for the
\* pipeline, three commits of one repository on both build branches, a
\* repository of the same name under another owner, and a third repository
\* pushed with a short commit id.
Payloads ==
    {MkPayload(ref, RepoOrgApp, Sha1, m, << >>, << >>) :
        ref \in Refs, m \in ModifiedLists}
    \cup {MkPayload(ref, RepoOrgApp, sha, <<ChartsFile, SrcFile>>, << >>, << >>) :
        ref \in {RefMain, RefProduction}, sha \in Shas}
    \cup {MkPayload(ref, RepoOrgApp, Sha1, << >>, a, d) :
        ref \in Refs, a \in {<< >>, <<SrcFile>>}, d \in {<< >>, <<SrcFile>>}}
    \cup {MkPayload(RefMain, RepoOtherApp, Sha3, <<SrcFile>>, << >>, << >>),
          MkPayload(RefMain, RepoOrgLib, ShaShort, <<SrcFile>>, << >>, << >>)}

NoPayload == MkPayload(<< >>, << >>, << >>, << >>, << >>, << >>)

\* ------------------------------------------------------- pure functions
\* file.startswith('charts/')
StartsWithCharts(file) == Len(file) >= 2 /\ file[1] = "charts"

\* Faulty variant: an empty list is not charts-only.
is_charts_only_commit_nonempty(modified_files) ==
    /\ modified_files # << >>
    /\ \A i \in 1..Len(modified_files) : StartsWithCharts(modified_files[i])

\* all(file.startswith('charts/') for file in modified_files)
is_charts_only_commit(modified_files) ==
    \A i \in 1..Len(modified_files) : StartsWithCharts(modified_files[i])

\* re.match(r'refs/heads/(.*)', ref): anchored at the start, the branch is
\* everything after "refs/heads/" (possibly empty, possibly with slashes).
branch_match(ref) == Len(ref) >= 3 /\ ref[1] = "refs" /\ ref[2] = "heads"

\* branch_match.group(1)
BranchOf(ref) == SubSeq(ref, 3, Len(ref))

\* ['main', 'production']
BuildBranches == {<<"main">>, <<"production">>}

\* s[:n]
Take(s, n) == SubSeq(s, 1, IF Len(s) < n THEN Len(s) ELSE n)

\* repo.split("/")[-1]
LastSegment(repo) == repo[Len(repo)]

\* os.path.join(repos_dir, repo.split("/")[-1])
RepoDir(repo) == <<"repos", LastSegment(repo)>>

MkTag(repo, name) == [registry |-> "ghcr.io", repo |-> repo, tag |-> name]
NoTag == [registry |-> "", repo |-> << >>, tag |-> << >>]

\* f"ghcr.io/{repo}:sha-{sha[:7]}"
base_image_tag(repo, sha) == MkTag(repo, <<"sha-">> \o Take(sha, ShaPrefixLen))

\* The tags added to the built image, in the order they are applied.
AdditionalTags(repo, branch) ==
    IF branch = <<"main">>
    THEN <<MkTag(repo, <<"latest">>), MkTag(repo, <<"dev">>)>>
    ELSE IF branch = <<"production">>
    THEN <<MkTag(repo, <<"prod">>)>>
    ELSE << >>

\* Faulty variant: dev is pushed before latest.
PushTags_reordered(repo, sha, branch) ==
    <<base_image_tag(repo, sha)>> \o
    (IF branch = <<"main">>
     THEN <<MkTag(repo, <<"dev">>), MkTag(repo, <<"latest">>)>>
     ELSE IF branch = <<"production">>
     THEN <<MkTag(repo, <<"prod">>)>>
     ELSE << >>)

\* The tags pushed, in the order they are pushed.
PushTags(repo, sha, branch) ==
    <<base_image_tag(repo, sha)>> \o
    (IF branch = <<"main">>
     THEN <<MkTag(repo, <<"latest">>), MkTag(repo, <<"dev">>)>>
     ELSE IF branch = <<"production">>
     THEN <<MkTag(repo, <<"prod">>)>>
     ELSE << >>)

\* not github_user or not github_token: None and "" are both falsy
NoneValue == "None"
Falsy(v) == v = NoneValue \/ v = ""
\* Faulty variant: only the absence of both is noticed.
CredentialsMissing_both(user, token) == Falsy(user) /\ Falsy(token)

CredentialsMissing(user, token) == Falsy(user) \/ Falsy(token)

\* ------------------------------------------------------------ exceptions
\* str(e) of the exceptions the try block can catch, as sequences of pieces.
\* str(CalledProcessError): "Command '[...]' returned non-zero exit status n."
CalledProcessErrorText(cmd) == <<"Command", cmd, "returned non-zero exit status">>
\* subprocess.run raising before git runs (executable or cwd not found)
OSErrorText == <<"[Errno 2] No such file or directory">>
GitErrorTexts(cmd) == {CalledProcessErrorText(cmd), OSErrorText}
\* the docker client's exceptions carry the daemon's message, whatever the call
DockerErrorTexts == {<<"500 Server Error: Internal Server Error">>,
                     <<"Error while fetching server API version">>}
\* str(HTTPException(500, detail)): "" or "500: <detail>", by framework version
CredentialsDetail == "GitHub credentials not found in environment variables"
HTTPExceptionTexts == {<< >>, <<"500", CredentialsDetail>>}

\* -------------------------------------------------------------- responses
NoResponse == [status |-> 0, message |-> "", branch |-> << >>,
               image_tag |-> NoTag, cause |-> << >>]
\* HTTPException(status_code=400, detail="Invalid ref format")
InvalidRefResponse == [NoResponse EXCEPT !.status = 400,
                                         !.message = "Invalid ref format"]
ChartsOnlyResponse == [NoResponse EXCEPT !.status = 200,
                          !.message = "Skipping build for charts-only commit"]
BranchSkipResponse(branch) == [NoResponse EXCEPT !.status = 200,
                          !.message = "Skipping build for branch",
                          !.branch = branch]
SuccessResponse(branch, image_tag) == [NoResponse EXCEPT !.status = 200,
                          !.message = "Webhook processed successfully",
                          !.branch = branch, !.image_tag = image_tag]
\* HTTPException(500, f"Failed to build/push Docker image: {str(e)}")
ErrorResponse(text) == [NoResponse EXCEPT !.status = 500,
                          !.message = "Failed to build/push Docker image: ",
                          !.cause = text]

\* Faulty variant: the branch list is not consulted.
Classify_any_branch(p) ==
    IF ~branch_match(p.ref) THEN InvalidRefResponse
    ELSE IF is_charts_only_commit(p.head_commit.modified) THEN ChartsOnlyResponse
    ELSE NoResponse

\* Faulty variant: the branch list is consulted before the modified files.
Classify_branch_first(p) ==
    IF ~branch_match(p.ref) THEN InvalidRefResponse
    ELSE IF BranchOf(p.ref) \notin BuildBranches
         THEN BranchSkipResponse(BranchOf(p.ref))
    ELSE IF is_charts_only_commit(p.head_commit.modified) THEN ChartsOnlyResponse
    ELSE NoResponse

\* The handler up to the call of the pipeline: the response it returns at
\* once, or NoResponse when it goes on to build.
Classify(p) ==
    IF ~branch_match(p.ref) THEN InvalidRefResponse
    ELSE IF is_charts_only_commit(p.head_commit.modified) THEN ChartsOnlyResponse
    ELSE IF BranchOf(p.ref) \notin BuildBranches
         THEN BranchSkipResponse(BranchOf(p.ref))
    ELSE NoResponse

\* ------------------------------------------------------------------ state
NoImage == [src |-> << >>, commit |-> << >>, by |-> 0]
NoWorkingCopy == [exists |-> FALSE, origin |-> << >>, head |-> << >>]

Dirs == {RepoDir(repo) : repo \in Repos}
\* The image names the payloads can lead to.
AllTags == {base_image_tag(p.repository.full_name, p.head_commit.id) : p \in Payloads}
           \cup {MkTag(repo, <<n>>) : repo \in Repos, n \in {"latest", "dev", "prod"}}

VARIABLES
    pc,         \* pc[r]: where run r is in the handler
    payload,    \* payload[r]: the event run r was delivered
    response,   \* response[r]: what run r returned to the caller
    calls,      \* calls[r]: the file system, git and docker calls run r made
    k,          \* k[r]: position in the tag list being applied / pushed
    env,        \* os.getenv: [userId, ghp_token]
    reposDir,   \* whether the directory "repos" exists
    gitignore,  \* the file .gitignore
    workdir,    \* workdir[d]: the working copy at path d
    images,     \* the docker daemon's local images, by tag
    registry    \* the registry's images, by tag

vars == <<pc, payload, response, calls, k, env, reposDir, gitignore, workdir,
          images, registry>>

Repo(r) == payload[r].repository.full_name
ShaOf(r) == payload[r].head_commit.id
Branch(r) == BranchOf(payload[r].ref)
Dir(r) == RepoDir(Repo(r))

Envs == {[userId |-> "bot", ghp_token |-> "ghp_secret"],
         [userId |-> NoneValue, ghp_token |-> "ghp_secret"],
         [userId |-> "bot", ghp_token |-> ""]}

NoGitignore == [exists |-> FALSE, lines |-> << >>]

\* The disk as an earlier server process may have left it: one working copy.
LeftWorkdir ==
    [d \in Dirs |-> IF d = RepoDir(RepoOrgApp)
                    THEN [exists |-> TRUE, origin |-> RepoOrgApp, head |-> Sha2]
                    ELSE NoWorkingCopy]

\* Where the default branch of a remote may point when it is cloned.
RemoteHeads == {Sha2, Sha3}

Init ==
    /\ pc = [r \in Runs |-> "idle"]
    /\ payload = [r \in Runs |-> NoPayload]
    /\ response = [r \in Runs |-> NoResponse]
    /\ calls = [r \in Runs |-> << >>]
    /\ k = [r \in Runs |-> 0]
    /\ env \in Envs
    /\ \/ /\ reposDir = FALSE
          /\ gitignore = NoGitignore
          /\ workdir = [d \in Dirs |-> NoWorkingCopy]
       \/ /\ reposDir = TRUE
          /\ gitignore = [exists |-> TRUE, lines |-> <<"repos/">>]
          /\ workdir = LeftWorkdir
    /\ images = [t \in AllTags |-> NoImage]
    /\ registry = [t \in AllTags |-> NoImage]

\* ---------------------------------------------------------------- helpers
Goto(r, label) == pc' = [pc EXCEPT ![r] = label]
Log(r, op, tag, ok) ==
    calls' = [calls EXCEPT ![r] =
                Append(@, [op |-> op, tag |-> tag, ok |-> ok, image |-> NoImage])]
\* A docker call that succeeded on image img: built it, named it or pushed it.
LogImage(r, op, tag, img) ==
    calls' = [calls EXCEPT ![r] =
                Append(@, [op |-> op, tag |-> tag, ok |-> TRUE, image |-> img])]

\* Faulty variant: the pipeline is started again after an exception.
ExceptTarget_restart(next) == "load_env"

\* Faulty variant: the exception is swallowed and the run goes on.
ExceptTarget_swallow(next) == next

\* except Exception as e: raise HTTPException(...): the run ends
ExceptTarget(next) == "failed"

\* A call of run r raised an exception with the given text.
Raise(r, next, text) ==
    /\ Goto(r, ExceptTarget(next))
    /\ response' = [response EXCEPT ![r] = ErrorResponse(text)]

\* ---------------------------------------------------------------- actions
\* @app.post("/github/webhook"): run r is delivered payload p.  Runs are
\* numbered in the order of delivery.
github_webhook(r, p) ==
    /\ pc[r] = "idle"
    /\ \A q \in Runs : q < r => pc[q] # "idle"
    /\ payload' = [payload EXCEPT ![r] = p]
    /\ LET res == Classify(p) IN
         IF res = NoResponse
         THEN /\ Goto(r, "load_env")
              /\ UNCHANGED response
         ELSE /\ Goto(r, IF res.status = 400 THEN "rejected" ELSE "skipped")
              /\ response' = [response EXCEPT ![r] = res]
    /\ UNCHANGED <<calls, k, env, reposDir, gitignore, workdir, images, registry>>

\* load_dotenv(); os.getenv; the credentials check
CheckCredentials(r) ==
    /\ pc[r] = "load_env"
    /\ IF CredentialsMissing(env.userId, env.ghp_token)
       THEN \E text \in HTTPExceptionTexts : Raise(r, "makedirs", text)
       ELSE Goto(r, "makedirs") /\ UNCHANGED response
    /\ UNCHANGED <<payload, calls, k, env, reposDir, gitignore, workdir, images,
                   registry>>

\* os.makedirs(repos_dir, exist_ok=True)
MakeReposDir(r) ==
    /\ pc[r] = "makedirs"
    /\ reposDir' = TRUE
    /\ Log(r, "makedirs", NoTag, TRUE)
    /\ Goto(r, "gitignore")
    /\ UNCHANGED <<payload, response, k, env, gitignore, workdir, images, registry>>

\* Add repos directory to .gitignore if not already there
UpdateGitignore(r) ==
    /\ pc[r] = "gitignore"
    /\ gitignore' =
         IF ~gitignore.exists THEN [exists |-> TRUE, lines |-> <<"repos/">>]
         ELSE IF \E i \in 1..Len(gitignore.lines) : gitignore.lines[i] = "repos/"
              THEN gitignore
         ELSE [gitignore EXCEPT !.lines = Append(@, "repos/")]
    /\ Log(r, "gitignore", NoTag, TRUE)
    /\ Goto(r, "exists")
    /\ UNCHANGED <<payload, response, k, env, reposDir, workdir, images, registry>>

\* Faulty variant: the repository is cloned in every run.
CheckRepoDir_always(r) ==
    /\ pc[r] = "exists"
    /\ Goto(r, "clone")
    /\ UNCHANGED <<payload, response, calls, k, env, reposDir, gitignore, workdir,
                   images, registry>>

\* if not os.path.exists(repo_dir)
CheckRepoDir(r) ==
    /\ pc[r] = "exists"
    /\ Goto(r, IF workdir[Dir(r)].exists THEN "fetch" ELSE "clone")
    /\ UNCHANGED <<payload, response, calls, k, env, reposDir, gitignore, workdir,
                   images, registry>>

\* git clone clone_url repo_dir.  git refuses a destination that exists by
\* now; a clone leaves the working copy at the remote's default branch,
\* wherever that points.
GitClone(r) ==
    /\ pc[r] = "clone"
    /\ \/ /\ ~workdir[Dir(r)].exists
          /\ \E h \in RemoteHeads :
                workdir' = [workdir EXCEPT ![Dir(r)] =
                              [exists |-> TRUE, origin |-> Repo(r), head |-> h]]
          /\ Log(r, "clone", NoTag, TRUE)
          /\ Goto(r, "fetch")
          /\ UNCHANGED response
       \/ /\ \E text \in GitErrorTexts("git clone") : Raise(r, "fetch", text)
          /\ Log(r, "clone", NoTag, FALSE)
          /\ UNCHANGED workdir
    /\ UNCHANGED <<payload, k, env, reposDir, gitignore, images, registry>>

\* git fetch --all, cwd=repo_dir
GitFetch(r) ==
    /\ pc[r] = "fetch"
    /\ \/ /\ workdir[Dir(r)].exists
          /\ Log(r, "fetch", NoTag, TRUE)
          /\ Goto(r, "checkout")
          /\ UNCHANGED response
       \/ /\ \E text \in GitErrorTexts("git fetch --all") : Raise(r, "checkout", text)
          /\ Log(r, "fetch", NoTag, FALSE)
    /\ UNCHANGED <<payload, k, env, reposDir, gitignore, workdir, images, registry>>

\* Faulty variant: the checkout stays where the working copy is.
CheckoutTarget_stale(r) == workdir[Dir(r)].head

\* The commit git checkout is given.
CheckoutTarget(r) == ShaOf(r)

\* git checkout sha, cwd=repo_dir
GitCheckout(r) ==
    /\ pc[r] = "checkout"
    /\ \/ /\ workdir[Dir(r)].exists
          /\ workdir' = [workdir EXCEPT ![Dir(r)].head = CheckoutTarget(r)]
          /\ Log(r, "checkout", NoTag, TRUE)
          /\ Goto(r, "from_env")
          /\ UNCHANGED response
       \/ /\ \E text \in GitErrorTexts("git checkout") : Raise(r, "from_env", text)
          /\ Log(r, "checkout", NoTag, FALSE)
          /\ UNCHANGED workdir
    /\ UNCHANGED <<payload, k, env, reposDir, gitignore, images, registry>>

\* A docker call that changes nothing in the model: op at label, then next.
DockerCall(r, label, op, next) ==
    /\ pc[r] = label
    /\ \/ /\ Log(r, op, NoTag, TRUE)
          /\ Goto(r, next)
          /\ UNCHANGED response
       \/ /\ \E text \in DockerErrorTexts : Raise(r, next, text)
          /\ Log(r, op, NoTag, FALSE)
    /\ UNCHANGED <<payload, k, env, reposDir, gitignore, workdir, images, registry>>

\* client = docker.from_env()
DockerFromEnv(r) == DockerCall(r, "from_env", "from_env", "login")

\* client.login(username, password, registry="ghcr.io")
DockerLogin(r) == DockerCall(r, "login", "login", "list")

\* print(f"{client.images.list()}")
ImagesList(r) == DockerCall(r, "list", "list", "build")

\* client.images.build(path=repo_dir, tag=base_image_tag): the image is built
\* from what the working copy holds and named by the base tag.
ImagesBuild(r) ==
    /\ pc[r] = "build"
    /\ LET base == base_image_tag(Repo(r), ShaOf(r)) IN
       \/ /\ workdir[Dir(r)].exists
          /\ images' = [images EXCEPT ![base] =
                          [src |-> workdir[Dir(r)].origin,
                           commit |-> workdir[Dir(r)].head, by |-> r]]
          /\ LogImage(r, "build", base, images'[base])
          /\ Goto(r, "tag")
          /\ k' = [k EXCEPT ![r] = 1]
          /\ UNCHANGED response
       \/ /\ \E text \in DockerErrorTexts : Raise(r, "tag", text)
          /\ Log(r, "build", base, FALSE)
          /\ UNCHANGED <<images, k>>
    /\ UNCHANGED <<payload, env, reposDir, gitignore, workdir, registry>>

\* client.images.get(base_image_tag).tag(...): the k-th additional tag
ImageTag(r) ==
    /\ pc[r] = "tag"
    /\ LET base == base_image_tag(Repo(r), ShaOf(r))
           more == AdditionalTags(Repo(r), Branch(r))
           last == k[r] >= Len(more)
       IN
       \/ /\ images[base] # NoImage
          /\ images' = [images EXCEPT ![more[k[r]]] = images[base]]
          /\ LogImage(r, "tag", more[k[r]], images[base])
          /\ Goto(r, IF last THEN "push" ELSE "tag")
          /\ k' = [k EXCEPT ![r] = IF last THEN 1 ELSE @ + 1]
          /\ UNCHANGED response
       \/ /\ \E text \in DockerErrorTexts : Raise(r, IF last THEN "push" ELSE "tag", text)
          /\ Log(r, "tag", more[k[r]], FALSE)
          /\ UNCHANGED <<images, k>>
    /\ UNCHANGED <<payload, env, reposDir, gitignore, workdir, registry>>

\* Faulty variant: a push that fails withdraws the tags this run had pushed.
ImagesPush_rollback(r) ==
    /\ pc[r] = "push"
    /\ LET tags == PushTags(Repo(r), ShaOf(r), Branch(r))
           last == k[r] >= Len(tags)
       IN
       \/ /\ images[tags[k[r]]] # NoImage
          /\ registry' = [registry EXCEPT ![tags[k[r]]] = images[tags[k[r]]]]
          /\ LogImage(r, "push", tags[k[r]], images[tags[k[r]]])
          /\ Goto(r, IF last THEN "done" ELSE "push")
          /\ k' = [k EXCEPT ![r] = IF last THEN @ ELSE @ + 1]
          /\ response' = [response EXCEPT ![r] =
                IF last THEN SuccessResponse(Branch(r),
                                             base_image_tag(Repo(r), ShaOf(r)))
                ELSE @]
       \/ /\ \E text \in DockerErrorTexts : Raise(r, IF last THEN "done" ELSE "push", text)
          /\ Log(r, "push", tags[k[r]], FALSE)
          /\ registry' = [t \in AllTags |->
                            IF \E i \in 1..(k[r] - 1) : tags[i] = t
                            THEN NoImage ELSE registry[t]]
          /\ UNCHANGED k
    /\ UNCHANGED <<payload, env, reposDir, gitignore, workdir, images>>

\* client.images.push(...): the k-th tag pushed; after the last one the
\* pipeline returns base_image_tag and the handler its success response.
ImagesPush(r) ==
    /\ pc[r] = "push"
    /\ LET tags == PushTags(Repo(r), ShaOf(r), Branch(r))
           last == k[r] >= Len(tags)
       IN
       \/ /\ images[tags[k[r]]] # NoImage
          /\ registry' = [registry EXCEPT ![tags[k[r]]] = images[tags[k[r]]]]
          /\ LogImage(r, "push", tags[k[r]], images[tags[k[r]]])
          /\ Goto(r, IF last THEN "done" ELSE "push")
          /\ k' = [k EXCEPT ![r] = IF last THEN @ ELSE @ + 1]
          /\ response' = [response EXCEPT ![r] =
                IF last THEN SuccessResponse(Branch(r),
                                             base_image_tag(Repo(r), ShaOf(r)))
                ELSE @]
       \/ /\ \E text \in DockerErrorTexts : Raise(r, IF last THEN "done" ELSE "push", text)
          /\ Log(r, "push", tags[k[r]], FALSE)
          /\ UNCHANGED <<registry, k>>
    /\ UNCHANGED <<payload, env, reposDir, gitignore, workdir, images>>

Step(r) ==
    \/ \E p \in Payloads : github_webhook(r, p)
    \/ CheckCredentials(r)
    \/ MakeReposDir(r)
    \/ UpdateGitignore(r)
    \/ CheckRepoDir(r)
    \/ GitClone(r)
    \/ GitFetch(r)
    \/ GitCheckout(r)
    \/ DockerFromEnv(r)
    \/ DockerLogin(r)
    \/ ImagesList(r)
    \/ ImagesBuild(r)
    \/ ImageTag(r)
    \/ ImagesPush(r)

Terminal == {"rejected", "skipped", "done", "failed"}

\* Webhook deliveries are handled concurrently.
Next == \E r \in Runs : Step(r)
Spec == Init /\ [][Next]_vars

\* One delivery at a time: a run takes steps only while every other run is
\* over or not yet delivered.
Alone(r) == \A q \in Runs \ {r} : pc[q] \in Terminal \cup {"idle"}
NextSeq == \E r \in Runs : Alone(r) /\ Step(r)
SpecSeq == Init /\ [][NextSeq]_vars

\* One delivery at a time where every call returns: a handler that has begun
\* goes on to its next statement.
SpecSeqFair == SpecSeq /\ WF_vars(NextSeq)

\* One delivery at a time where calls may raise in the first run only: in
\* every later run each git and docker call succeeds (the credentials check
\* still decides by the environment).
NextRetry ==
    \E r \in Runs :
        /\ Alone(r)
        /\ Step(r)
        /\ (r > 1 /\ pc[r] # "load_env") => pc'[r] # "failed"
SpecRetry == Init /\ [][NextRetry]_vars /\ WF_vars(NextRetry)

\* ============================================================== properties
Delivered(r) == pc[r] # "idle"
InPipeline(r) == pc[r] \notin {"idle", "rejected", "skipped"}

\* The event's conditions, read off the payload.
IsBranchRef(p) == Len(p.ref) >= 3 /\ SubSeq(p.ref, 1, 2) = <<"refs", "heads">>
EventBranch(p) == [i \in 1..(Len(p.ref) - 2) |-> p.ref[i + 2]]
ChartsOnly(p) ==
    \A i \in 1..Len(p.head_commit.modified) :
        /\ Len(p.head_commit.modified[i]) > 1
        /\ Head(p.head_commit.modified[i]) = "charts"
Tracked(p) == EventBranch(p) \in {<<"main">>, <<"production">>}

\* What run r has done so far.
OkCalls(r, ops) == SelectSeq(calls[r], LAMBDA c : c.ok /\ c.op \in ops)
TagsOf(cs) == [i \in 1..Len(cs) |-> cs[i].tag]
PushedTags(r) == TagsOf(OkCalls(r, {"push"}))
CreatedTags(r) == TagsOf(OkCalls(r, {"build", "tag"}))

\* C1: a run whose event is rejected (ref is no branch ref) or skipped
\* (charts-only change, or branch other than main and production) ends at once
\* and has made no call at all: no directory or file written, no clone, fetch,
\* checkout, login, build, tag or push.
C1_NoCallsWhenRejectedOrSkipped ==
    \A r \in Runs :
        (Delivered(r) /\ (~IsBranchRef(payload[r]) \/ ChartsOnly(payload[r])
                          \/ ~Tracked(payload[r])))
        => /\ pc[r] \in {"rejected", "skipped"}
           /\ calls[r] = << >>
           /\ response[r].status \in {200, 400}
           /\ response[r].image_tag = NoTag

C1_Witness ==
    \E a, b \in Runs :
        /\ pc[a] = "rejected" /\ payload[a].ref = RefTag /\ calls[a] = << >>
        /\ pc[b] = "skipped" /\ payload[b].ref = RefFeature
        /\ payload[b].head_commit.modified = <<ChartsFile, SrcFile>>
        /\ calls[b] = << >>
        /\ a < b
        /\ reposDir = FALSE

\* C2: the rules apply in order, the first that matches wins: no branch ref
\* gives 400 even for a charts-only commit; else a charts-only commit gives the
\* charts-only skip even on an untracked branch; else an untracked branch gives
\* the branch skip; else the pipeline is entered.  The pipeline is entered
\* exactly when the ref is a branch ref, the branch is main or production and
\* some modified path is not under charts/.
C2_RulesInOrder ==
    \A r \in Runs : Delivered(r) =>
        LET p == payload[r] IN
        /\ ~IsBranchRef(p) => pc[r] = "rejected" /\ response[r] = InvalidRefResponse
        /\ (IsBranchRef(p) /\ ChartsOnly(p))
              => pc[r] = "skipped" /\ response[r] = ChartsOnlyResponse
        /\ (IsBranchRef(p) /\ ~ChartsOnly(p) /\ ~Tracked(p))
              => /\ pc[r] = "skipped"
                 /\ response[r].message = "Skipping build for branch"
                 /\ response[r].branch = EventBranch(p)
        /\ InPipeline(r) <=> (IsBranchRef(p) /\ Tracked(p) /\ ~ChartsOnly(p))

C2_Witness ==
    \E a, b \in Runs :
        /\ payload[a].ref = RefTag /\ payload[a].head_commit.modified = <<ChartsFile>>
        /\ pc[a] = "rejected"
        /\ payload[b].ref = RefFeature /\ payload[b].head_commit.modified = <<ChartsFile>>
        /\ response[b] = ChartsOnlyResponse

\* C3: an event with a branch ref and an empty modified list gets the
\* charts-only skip, whatever its added and removed lists and its branch; no
\* event with an empty modified list starts a build.
C3_EmptyModifiedSkips ==
    \A r \in Runs :
        (Delivered(r) /\ payload[r].head_commit.modified = << >>)
        => /\ ~InPipeline(r)
           /\ calls[r] = << >>
           /\ IsBranchRef(payload[r])
                 => pc[r] = "skipped" /\ response[r] = ChartsOnlyResponse

C3_Witness ==
    \E a, b \in Runs :
        /\ a # b
        /\ payload[a].ref = RefMain /\ payload[b].ref = RefFeature
        /\ \A r \in {a, b} :
              /\ payload[r].head_commit.modified = << >>
              /\ payload[r].head_commit.added = <<SrcFile>>
              /\ payload[r].head_commit.removed = <<SrcFile>>
              /\ response[r] = ChartsOnlyResponse

\* The tag "ghcr.io/<repo>:sha-<first 7 characters of sha>".
ExpectedBase(repo, sha) ==
    [registry |-> "ghcr.io", repo |-> repo,
     tag |-> <<"sha-">> \o (IF Len(sha) > 7 THEN SubSeq(sha, 1, 7) ELSE sha)]
Floating(repo, name) == [registry |-> "ghcr.io", repo |-> repo, tag |-> <<name>>]
ExpectedTags(p) ==
    <<ExpectedBase(p.repository.full_name, p.head_commit.id)>> \o
    (IF EventBranch(p) = <<"main">>
     THEN <<Floating(p.repository.full_name, "latest"),
            Floating(p.repository.full_name, "dev")>>
     ELSE <<Floating(p.repository.full_name, "prod")>>)
IsPrefix(s, t) == Len(s) <= Len(t) /\ s = SubSeq(t, 1, Len(s))

\* C4: the tags a run creates and the tags it pushes are, in this order,
\* [base, latest, dev] on main and [base, prod] on production, with base =
\* ghcr.io/<repo>:sha-<first 7 of the head commit id>: at any moment the tags
\* created and the tags pushed so far are prefixes of that list, a run that
\* returns success has created and pushed the whole list, each tag once, and
\* reports the base tag; equal (repository, sha, branch) give equal lists.
C4_TagList ==
    /\ \A r \in Runs : InPipeline(r) =>
          /\ IsPrefix(CreatedTags(r), ExpectedTags(payload[r]))
          /\ IsPrefix(PushedTags(r), ExpectedTags(payload[r]))
          /\ pc[r] = "done" =>
                /\ CreatedTags(r) = ExpectedTags(payload[r])
                /\ PushedTags(r) = ExpectedTags(payload[r])
                /\ response[r].image_tag
                      = ExpectedBase(Repo(r), payload[r].head_commit.id)
    /\ \A a, b \in Runs :
          (pc[a] = "done" /\ pc[b] = "done" /\ Repo(a) = Repo(b)
             /\ ShaOf(a) = ShaOf(b) /\ Branch(a) = Branch(b))
          => PushedTags(a) = PushedTags(b)

C4_Witness ==
    \E a, b \in Runs :
        /\ pc[a] = "done" /\ payload[a].ref = RefMain
        /\ Repo(a) = RepoOrgApp /\ ShaOf(a) = Sha1
        /\ PushedTags(a) = <<MkTag(RepoOrgApp, <<"sha-","a","b","c","d","e","f","1">>),
                             MkTag(RepoOrgApp, <<"latest">>),
                             MkTag(RepoOrgApp, <<"dev">>)>>
        /\ pc[b] = "done" /\ payload[b].ref = RefProduction
        /\ Len(PushedTags(b)) = 2 /\ PushedTags(b)[2].tag = <<"prod">>

Failed(r) == pc[r] = "failed"
LastCall(r) == calls[r][Len(calls[r])]
\* The call of run r that raised, "credentials" when it was the credentials check.
FailedAt(r) ==
    IF calls[r] = << >> \/ LastCall(r).ok THEN "credentials" ELSE LastCall(r).op
CredentialsAbsent ==
    env.userId \in {"None", ""} \/ env.ghp_token \in {"None", ""}

\* C5: when the k-th push fails the run ends Failed with no later push, and
\* the error returned tells how many tags were pushed before it: two runs that
\* return the same error have pushed the same number of tags.
C5_PushFailureReportsPushed ==
    /\ \A r \in Runs : (Failed(r) /\ FailedAt(r) = "push")
          => /\ response[r].status = 500
             /\ IsPrefix(PushedTags(r), ExpectedTags(payload[r]))
    /\ \A a, b \in Runs :
          (Failed(a) /\ FailedAt(a) = "push" /\ Failed(b) /\ FailedAt(b) = "push"
             /\ response[a] = response[b])
          => Len(PushedTags(a)) = Len(PushedTags(b))

\* The stage of the pipeline a failed call belongs to.
StageOf(op) ==
    IF op \in {"clone", "fetch", "checkout"} THEN "sync"
    ELSE IF op = "push" THEN "publish"
    ELSE op
Stages == {"credentials", "sync", "build", "publish"}

\* C6: the error returned by a failed run identifies the stage that failed:
\* two runs that failed in different stages (credentials, sync, build,
\* publish) return different errors.
C6_ErrorIdentifiesStage ==
    \A a, b \in Runs :
        (Failed(a) /\ Failed(b)
           /\ StageOf(FailedAt(a)) \in Stages /\ StageOf(FailedAt(b)) \in Stages
           /\ StageOf(FailedAt(a)) # StageOf(FailedAt(b)))
        => response[a] # response[b]

\* C7: with the username or the token absent, a run that enters the pipeline
\* fails at the credentials check with a 500 carrying that check's exception,
\* and has made no call at all; nothing on disk, in the image store or in the
\* registry differs from how the server found it, with or without a working
\* copy for the repository.
C7_NoCredentialsNoCalls ==
    CredentialsAbsent =>
        /\ \A r \in Runs : InPipeline(r) =>
              /\ pc[r] \in {"load_env", "failed"}
              /\ calls[r] = << >>
              /\ Failed(r) => /\ response[r].status = 500
                              /\ response[r].cause \in HTTPExceptionTexts
        /\ \/ reposDir = FALSE /\ gitignore = NoGitignore
              /\ \A d \in Dirs : workdir[d] = NoWorkingCopy
           \/ reposDir = TRUE /\ gitignore.exists /\ workdir = LeftWorkdir
        /\ \A t \in AllTags : images[t] = NoImage /\ registry[t] = NoImage

C7_Witness ==
    \E a, b \in Runs :
        /\ CredentialsAbsent
        /\ Failed(a) /\ workdir[Dir(a)].exists
        /\ Failed(b) /\ ~workdir[Dir(b)].exists
        /\ calls[a] = << >> /\ calls[b] = << >>

C9_BuildAtEventSha ==
    \A r \in Runs :
        /\ pc[r] = "build"
              => /\ workdir[Dir(r)].exists
                 /\ workdir[Dir(r)].head = payload[r].head_commit.id
        /\ \A t \in AllTags :
              images[t].by = r => images[t].commit = payload[r].head_commit.id

C9_Witness ==
    \E a, b \in Runs :
        /\ a < b
        /\ Failed(a) /\ FailedAt(a) = "build"
        /\ pc[b] = "build"
        /\ Dir(a) = Dir(b) /\ ShaOf(a) # ShaOf(b)
        /\ workdir[Dir(b)].head = ShaOf(b)
        /\ OkCalls(b, {"clone"}) = << >>

\* C10: runs for different repositories never share a working copy: a run
\* never fetches, checks out or builds in the working copy that a run for
\* another repository cloned.
C10_ReposIndependent ==
    \A a, b \in Runs :
        (InPipeline(a) /\ InPipeline(b)
           /\ payload[a].repository.full_name # payload[b].repository.full_name
           /\ OkCalls(a, {"clone"}) # << >>
           /\ pc[b] \in {"fetch", "checkout", "from_env", "login", "list", "build"})
        => ~(/\ workdir[Dir(b)].exists
             /\ workdir[Dir(b)].origin = payload[a].repository.full_name)

\* C11: with concurrent runs, a run can be at its build while the working
\* copy it shares is checked out at another commit, and then builds the image
\* named after its own commit from that other commit.  This happens only
\* through another run for the same path: whenever a run is about to build
\* from a commit that is not its own, a different run using the same path has
\* checked out that commit.
C11_BuildAtOtherShaByRace ==
    \A r \in Runs :
        (pc[r] = "build" /\ workdir[Dir(r)].head # payload[r].head_commit.id)
        => \E q \in Runs \ {r} :
              /\ InPipeline(q)
              /\ Dir(q) = Dir(r)
              /\ OkCalls(q, {"checkout"}) # << >>
              /\ workdir[Dir(r)].head = payload[q].head_commit.id

C11_Witness ==
    \E a, b \in Runs :
        /\ InPipeline(a) /\ InPipeline(b)
        /\ Repo(a) = RepoOrgApp /\ Repo(b) = RepoOrgApp
        /\ ShaOf(a) = Sha1 /\ ShaOf(b) = Sha3
        /\ pc[a] = "tag"
        /\ pc[b] \in {"from_env", "login", "list", "build"}
        /\ workdir[Dir(a)].head = Sha3
        /\ images[base_image_tag(RepoOrgApp, Sha1)].by = a
        /\ images[base_image_tag(RepoOrgApp, Sha1)].commit = Sha3

\* The git and image operations of run r, in the order it invoked them.
PipelineOps == {"clone", "fetch", "checkout", "build", "tag", "push"}
OpsOf(r) ==
    LET cs == SelectSeq(calls[r], LAMBDA c : c.op \in PipelineOps)
    IN  [i \in 1..Len(cs) |-> cs[i].op]
Repeat(x, n) == [i \in 1..n |-> x]
\* clone (when the run clones), fetch, checkout, build, one tag operation for
\* each additional tag, one push for each tag of the list.
ExpectedOps(p, cloned) ==
    (IF cloned THEN <<"clone">> ELSE << >>)
    \o <<"fetch", "checkout", "build">>
    \o Repeat("tag", Len(ExpectedTags(p)) - 1)
    \o Repeat("push", Len(ExpectedTags(p)))
HasOk(r, op) == OkCalls(r, {op}) # << >>
Invoked(r, op) == \E i \in 1..Len(calls[r]) : calls[r][i].op = op

\* C12: the operations of a run occur in the order clone (only as the first,
\* when the run found no working copy), fetch, checkout, build, the additional
\* tags, the pushes, success: the operations invoked so far are always a
\* prefix of that list and a run that returns success has invoked all of it;
\* build is invoked only after this run's checkout succeeded, a push only
\* after its build and all its additional tag operations succeeded.
C12_OperationOrder ==
    \A r \in Runs : InPipeline(r) =>
        /\ IsPrefix(OpsOf(r), ExpectedOps(payload[r], Invoked(r, "clone")))
        /\ Invoked(r, "build") => HasOk(r, "checkout") /\ HasOk(r, "fetch")
        /\ Invoked(r, "push")
              => /\ HasOk(r, "build")
                 /\ Len(OkCalls(r, {"tag"})) = Len(ExpectedTags(payload[r])) - 1
        /\ pc[r] = "done"
              => OpsOf(r) = ExpectedOps(payload[r], Invoked(r, "clone"))

C12_Witness ==
    \E a, b \in Runs :
        /\ pc[a] = "done" /\ pc[b] = "done"
        /\ OpsOf(a) = <<"clone", "fetch", "checkout", "build", "tag", "tag",
                        "push", "push", "push">>
        /\ OpsOf(b) = <<"fetch", "checkout", "build", "tag", "push", "push">>

\* C13: the registry login belongs to the publish stage: a run invokes the
\* login only after its image build has succeeded, so a run whose build
\* failed has not attempted a login.
C13_LoginAfterBuild ==
    \A r \in Runs :
        /\ Invoked(r, "login") => HasOk(r, "build")
        /\ (Failed(r) /\ FailedAt(r) = "build") => ~Invoked(r, "login")

\* C14: git clone is invoked only on a path where no working copy exists, a
\* working copy that exists is never deleted, and for one path at most one run
\* clones: every other run goes straight to fetch and checkout.
C14_CloneOnlyOnFreePath ==
    [][ /\ \A r \in Runs :
              (pc[r] = "clone" /\ pc'[r] # "clone") => ~workdir[Dir(r)].exists
        /\ \A d \in Dirs : workdir[d].exists => workdir'[d].exists
        /\ \A a, b \in Runs :
              (a # b /\ InPipeline(a) /\ InPipeline(b) /\ Dir(a) = Dir(b))
              => ~(HasOk(a, "clone")' /\ HasOk(b, "clone")') ]_vars

\* C15: a failed run undoes nothing.  The step that fails changes neither the
\* registry nor the local images nor any working copy, and the failed run
\* takes no step after it: the tags it had pushed keep the image it pushed
\* and the working copy stays as its last successful git command left it.
C15_NoCompensation ==
    [][ \A r \in Runs :
          /\ (pc[r] \notin Terminal /\ pc'[r] = "failed")
             => /\ registry' = registry
                /\ images' = images
                /\ workdir' = workdir
                /\ OkCalls(r, PipelineOps)' = OkCalls(r, PipelineOps)
          /\ pc[r] = "failed" => (pc'[r] = "failed" /\ calls'[r] = calls[r]) ]_vars
\* A run that failed at a later push: what it pushed is still in the registry
\* and the working copy is still at its commit.
C15_Witness ==
    \E r \in Runs :
        /\ Failed(r)
        /\ FailedAt(r) = "push"
        /\ PushedTags(r) # << >>
        /\ \A i \in 1..Len(OkCalls(r, {"push"})) :
              LET c == OkCalls(r, {"push"})[i] IN
              registry[c.tag] = c.image /\ c.image # NoImage
        /\ workdir[Dir(r)].exists
        /\ workdir[Dir(r)].head = ShaOf(r)

SyncOps == {"clone", "fetch", "checkout"}

\* C16: after a run has failed at clone, fetch or checkout, the next run for
\* the same repository (any sha), executed alone with every git and docker
\* call succeeding, reaches Done with the working copy checked out at exactly
\* its own sha.
C16_NextRunConverges ==
    \A b \in Runs \ {1} :
        ( /\ pc[b - 1] = "failed"
          /\ FailedAt(b - 1) \in SyncOps
          /\ InPipeline(b)
          /\ Repo(b) = Repo(b - 1) )
        ~> ( /\ pc[b] = "done"
             /\ workdir[Dir(b)].exists
             /\ workdir[Dir(b)].head = ShaOf(b) )
\* The first run failed at its checkout; the next one, for another commit of
\* the same repository, is Done and the working copy is at that commit.
C16_Witness ==
    \E b \in Runs \ {1} :
        /\ pc[b - 1] = "failed"
        /\ pc[b] = "done"
        /\ FailedAt(b - 1) = "checkout"
        /\ Repo(b) = Repo(b - 1)
        /\ ShaOf(b) # ShaOf(b - 1)
        /\ workdir[Dir(b)].head = ShaOf(b)
        /\ HasOk(b, "checkout")

Rank(label) ==
    CASE label = "idle" -> 0
      [] label = "load_env" -> 1
      [] label = "makedirs" -> 2
      [] label = "gitignore" -> 3
      [] label = "exists" -> 4
      [] label = "clone" -> 5
      [] label = "fetch" -> 6
      [] label = "checkout" -> 7
      [] label = "from_env" -> 8
      [] label = "login" -> 9
      [] label = "list" -> 10
      [] label = "build" -> 11
      [] label = "tag" -> 12
      [] label = "push" -> 13
      [] OTHER -> 14
CountOp(r, op) == Len(SelectSeq(calls[r], LAMBDA c : c.op = op))
CountPush(r, t) == Len(SelectSeq(calls[r], LAMBDA c : c.op = "push" /\ c.tag = t))
\* A step of run r moves it strictly forward.
Forward(r) ==
    \/ Rank(pc'[r]) > Rank(pc[r])
    \/ pc'[r] = pc[r] /\ pc[r] \in {"tag", "push"} /\ k'[r] > k[r]

\* C17: a run handles exactly one event and, when every call returns, ends in
\* exactly one of rejected, skipped, Done, Failed and stays there; a step of a
\* run always moves it forward (no pipeline state is entered again, nothing
\* is retried), so clone, fetch, checkout and build are each invoked at most
\* once in a run and each tag is pushed at most once.
C17_OneOutcomeNoRetry ==
    /\ [][ \A r \in Runs :
            /\ Delivered(r) => payload'[r] = payload[r]
            /\ pc[r] \in Terminal
               => (pc'[r] = pc[r] /\ response'[r] = response[r]
                   /\ calls'[r] = calls[r])
            /\ (pc'[r] # pc[r] \/ calls'[r] # calls[r] \/ k'[r] # k[r])
               => Forward(r) ]_vars
    /\ [](\A r \in Runs :
            /\ \A op \in {"clone", "fetch", "checkout", "build"} : CountOp(r, op) <= 1
            /\ \A t \in AllTags : CountPush(r, t) <= 1)
    /\ \A r \in Runs : Delivered(r) ~> (pc[r] \in Terminal)
\* One run is Done having cloned, fetched, checked out and built once each
\* and pushed three tags, another has Failed after a call of its own.
C17_Witness ==
    \E a, b \in Runs :
        /\ pc[a] = "done"
        /\ pc[b] = "failed"
        /\ \A op \in {"clone", "fetch", "checkout", "build"} : CountOp(a, op) = 1
        /\ Len(PushedTags(a)) = 3
        /\ calls[b] # << >>
        /\ FailedAt(b) = "build"

\* What an image was built from: the repository and the commit.
SourceOf(img) == [src |-> img.src, commit |-> img.commit]

\* C18: a run that returns success has pushed, under every tag of its list
\* (the floating tags latest and dev, or prod, included), the one image that
\* this run built and pushed under its own sha tag (an image of the same
\* repository and commit), whatever other runs do at the same time.
C18_FloatingTagsOwnImage ==
    \A r \in Runs :
        pc[r] = "done"
        => LET ps == OkCalls(r, {"push"})
               bs == OkCalls(r, {"build"})
           IN  \A i \in 1..Len(ps) :
                   SourceOf(ps[i].image) = SourceOf(bs[1].image)

\* The tags of a repository that the registry holds.
RegistryTags(repo) == {t \in AllTags : t.repo = repo /\ registry[t] # NoImage}

\* C19: handling the same accepted event again, right after a run that
\* returned success and with one delivery at a time, changes nothing that
\* can be observed: no step of the second run changes the checked-out commit
\* or the set of tags the registry holds for the repository, the second run
\* invokes no clone, and when it returns success it has pushed the same tags
\* and returns the same response as the first.
C19_RerunIdempotent ==
    [][ \A b \in Runs \ {1} :
          ( /\ pc[b - 1] = "done"
            /\ InPipeline(b)'
            /\ payload'[b] = payload[b - 1]
            /\ (pc'[b] # pc[b] \/ k'[b] # k[b]) )
          => /\ pc'[b] # "clone"
             /\ workdir'[Dir(b - 1)] = workdir[Dir(b - 1)]
             /\ RegistryTags(Repo(b - 1))' = RegistryTags(Repo(b - 1))
             /\ pc'[b] = "done"
                => /\ response'[b] = response[b - 1]
                   /\ workdir'[Dir(b - 1)].head = ShaOf(b - 1)
                   /\ PushedTags(b)' = PushedTags(b - 1) ]_vars
\* The same event handled twice with success: the first run cloned, the
\* second did not, both returned the same response.
C19_Witness ==
    \E b \in Runs \ {1} :
        /\ pc[b - 1] = "done"
        /\ pc[b] = "done"
        /\ payload[b] = payload[b - 1]
        /\ HasOk(b - 1, "clone")
        /\ ~Invoked(b, "clone")
        /\ response[b] = response[b - 1]
        /\ PushedTags(b) = PushedTags(b - 1)
        /\ workdir[Dir(b)].head = ShaOf(b)

====
